---------------------------- MODULE Spec2Model ----------------------------
(* User-account backend (Express + Sequelize): session tokens with a      *)
(* sliding one-week window, login/logout, password reset, registration    *)
(* with activation, account deletion and the scheduled token cleanup.     *)
(*                                                                        *)
(* Every request handler is cut at its awaits on the store: one action    *)
(* per store round trip, with the handler's locals kept in req[p].        *)
EXTENDS Integers, FiniteSets, Sequences, TLC

VARIABLES
  users,        \* rows of the users table
  tokens,       \* rows of the tokens table
  now,          \* Date.now(), in milliseconds
  ticks,        \* number of clock advances so far
  nextUserId,   \* auto-increment id of the users table
  nextToken,    \* randomString(32) draws made for session tokens
  nextReset,    \* randomString(16) draws made for password reset tokens
  intervals,    \* number of setInterval timers created by scheduleCleanup
  due,          \* timer callbacks that are due and have not run yet
  alive,        \* the node process is running
  req,          \* per request slot: the handler's position and locals
  swept         \* history: token values deleted by the cleanup callback

vars == <<users, tokens, now, ticks, nextUserId, nextToken, nextReset,
          intervals, due, alive, req, swept>>

-----------------------------------------------------------------------------
(* Bounds of the model *)

MaxTicks == 2
MaxTokens == 2
MaxUserId == 2
MaxResets == 2
MaxQuery == 11

(* Program constants *)

DAY == 24 * 60 * 60 * 1000
ONE_WEEK_AGO_IN_MILLIS == 7 * 24 * 60 * 60 * 1000
SIX_DAYS == 6 * DAY

OK == 200
BAD_REQUEST == 400
UNAUTHORIZED == 401
FORBIDDEN == 403
NOT_FOUND == 404
BAD_GATEWAY == 502
SERVER_ERROR == 500

Emails == {"user1@xyz.com", "user2@xyz.com"}
Usernames == {"user1", "user1-updated"}
Passwords == {"test1234", "P4ssword"}
Deltas == {SIX_DAYS, ONE_WEEK_AGO_IN_MILLIS}
Procs == {1, 2}

Null == <<>>                      \* null / undefined
TypeError == <<"TypeError">>      \* a property of null was written or read
Bogus == <<"invalid-token">>      \* a well-formed value the generator never drew

\* crypto.randomBytes(n).toString('hex').substring(0, n): the k-th draw of a
\* kind; draws never repeat.
randomString(kind, k) == <<kind, k>>

SessionValues == {randomString("s", k) : k \in 1..(nextToken - 1)}
ActivationValues == {randomString("a", k) : k \in 1..(nextUserId - 1)}
ResetValues == {randomString("r", k) : k \in 1..(nextReset - 1)}

\* bcrypt.hash / bcrypt.compare (the salt is left out)
Hash(password) == <<"bcrypt", password>>
Compare(password, hash) == hash = Hash(password)

-----------------------------------------------------------------------------
(* model/token and model/user: the tables *)

\* issuedAt is history: the time the row was created; no operation reads it.
TokenRow(token, userId, lastUsedAt) ==
  [token |-> token, userId |-> userId, lastUsedAt |-> lastUsedAt,
   issuedAt |-> lastUsedAt]

UserRow(id, email, password, token) ==
  [id |-> id, username |-> "user1", email |-> email, password |-> password,
   inactive |-> TRUE, activationToken |-> token, passwordResetToken |-> Null]

UserIds == {u.id : u \in users}

\* Token.create under the foreign key tokens.userId -> users.id
ForeignKeyHolds(userId) == userId \in UserIds

\* faulty variant: the rows of a deleted user stay
CascadeNothing(rows, userId) == rows

\* User.hasMany(Token, { onDelete: 'cascade', foreignKey: 'userId' })
Cascade(rows, userId) == {r \in rows : r.userId # userId}

-----------------------------------------------------------------------------
(* service/token *)

oneWeekAgo(t) == t - ONE_WEEK_AGO_IN_MILLIS

\* Faulty variants of the operations below; each property of the last section
\* is checked to tell the operation it depends on from its variant.
createTokenNoUser(rows, user, token, t) == rows \cup {TokenRow(token, 0, t)}
VerifyWhereInclusive(r, token, t) == r.token = token /\ r.lastUsedAt >= oneWeekAgo(t)
verifySaveNothing(rows, token, lastUsedAt) == rows
deleteTokenNothing(rows, token) == rows
deleteTokenEverything(rows, token) == {}
CleanupWhereInclusive(r, t) == r.lastUsedAt <= oneWeekAgo(t)
clearTokensOthers(rows, userId) == {r \in rows : r.userId = userId}
verifyFindNothing(rows, token, t) == {}
verifySaveEvery(rows, token, lastUsedAt) ==
  {[r EXCEPT !.lastUsedAt = lastUsedAt] : r \in rows}
deleteTokenOfOwner(rows, token) ==
  {r \in rows : \A q \in rows : q.token = token => r.userId # q.userId}
clearTokensEvery(rows, userId) == {}
VerifyWhereDayLate(r, token, t) == r.token = token /\ r.lastUsedAt > oneWeekAgo(t) - DAY
verifySaveDuplicates(rows, token, lastUsedAt) ==
  rows \cup {[r EXCEPT !.lastUsedAt = lastUsedAt] : r \in {q \in rows : q.token = token}}
verifySaveUpsert(rows, token, lastUsedAt) ==
  IF \E r \in rows : r.token = token
  THEN {IF r.token = token THEN [r EXCEPT !.lastUsedAt = lastUsedAt] ELSE r : r \in rows}
  ELSE rows \cup {TokenRow(token, 1, lastUsedAt)}

\* Token.create({ token, userId: user.id, lastUsedAt: new Date() })
createToken(rows, user, token, t) == rows \cup {TokenRow(token, user.id, t)}

\* where: { token: token, lastUsedAt: { [Op.gt]: oneWeekAgo } }
VerifyWhere(r, token, t) == r.token = token /\ r.lastUsedAt > oneWeekAgo(t)

\* Token.findOne(...) of verify: the set holding the row found, if any
verifyFind(rows, token, t) == {r \in rows : VerifyWhere(r, token, t)}

\* tokenInDb.save(): UPDATE tokens SET lastUsedAt WHERE the row still exists
verifySave(rows, token, lastUsedAt) ==
  {IF r.token = token THEN [r EXCEPT !.lastUsedAt = lastUsedAt] ELSE r : r \in rows}

\* Token.destroy({ where: { token: token } })
deleteToken(rows, token) == {r \in rows : r.token # token}

\* where: { lastUsedAt: { [Op.lt]: oneWeekAgo } }
CleanupWhere(r, t) == r.lastUsedAt < oneWeekAgo(t)

\* the body of the setInterval callback of scheduleCleanup
cleanup(rows, t) == {r \in rows : ~CleanupWhere(r, t)}

\* Token.destroy({ where: { userId } })
clearTokens(rows, userId) == {r \in rows : r.userId # userId}

-----------------------------------------------------------------------------
(* Requests. req[p] holds the handler's position (pc), the bearer token of *)
(* the Authorization header (hdr), req.authenticatedUser as a set of at    *)
(* most one id (auth), the route (op), its body and path parameters (arg)  *)
(* and the handler's locals (loc); once answered, the status and body      *)
(* (status, out) of the response.                                          *)
(* The middleware reads nothing but the Authorization header, so the rest  *)
(* of a request is drawn when the router dispatches it (pc = "route").     *)

Idle == [op |-> "none", pc |-> "idle", hdr |-> Null, auth |-> {}, arg |-> Null,
         loc |-> Null, status |-> 0, out |-> Null]

\* a handler between two of its awaits
Await(op, pc, arg, loc) == [Idle EXCEPT !.op = op, !.pc = pc, !.arg = arg, !.loc = loc]

\* res.send(...) or next(error): what stays of a request is its answer
Respond(op, status, out) ==
  [Idle EXCEPT !.op = op, !.pc = "done", !.status = status, !.out = out]

Free(p) == alive /\ req[p].pc \in {"idle", "done"}
At(p, pc) == alive /\ req[p].pc = pc
InFlight(pc) == Cardinality({q \in Procs : req[q].pc = pc})

\* header values a client can present: a token some login returned, or a guess
Bearers == SessionValues \cup {Bogus}

DbUnchanged == UNCHANGED <<users, tokens, nextUserId, nextToken, nextReset>>
TimerUnchanged == UNCHANGED <<now, ticks, intervals, due, alive>>
HistoryUnchanged == UNCHANGED swept

\* A promise rejected with nobody awaiting it: node ends the process with an
\* uncaught exception (the default since node 15) or only prints a warning.
UnhandledRejection == alive' \in BOOLEAN

-----------------------------------------------------------------------------
(* app.use(tokenAuthentication): runs before every route *)

\* a request arrives, with or without an Authorization header
Request(p) ==
  /\ Free(p)
  /\ \E hdr \in Bearers \cup {Null} :
       req' = [req EXCEPT ![p] =
         [Idle EXCEPT !.pc = IF hdr = Null THEN "route" ELSE "verify_find",
                      !.hdr = hdr]]
  /\ DbUnchanged /\ TimerUnchanged /\ HistoryUnchanged

\* const tokenInDb = await Token.findOne(...); tokenInDb.lastUsedAt = new Date()
\* A null tokenInDb makes the assignment throw a TypeError; the middleware
\* catches whatever verify throws (kept in loc) and calls next().
VerifyFind(p) ==
  /\ At(p, "verify_find")
  /\ LET found == verifyFind(tokens, req[p].hdr, now) IN
       IF found = {}
       THEN req' = [req EXCEPT ![p].pc = "route", ![p].loc = TypeError]
       ELSE \E r \in found :
              req' = [req EXCEPT ![p].pc = "verify_save",
                                 ![p].loc = [r EXCEPT !.lastUsedAt = now]]
  /\ DbUnchanged /\ TimerUnchanged /\ HistoryUnchanged

\* await tokenInDb.save(); req.authenticatedUser = { id: tokenInDb.userId }; next()
VerifySave(p) ==
  /\ At(p, "verify_save")
  /\ tokens' = verifySave(tokens, req[p].loc.token, req[p].loc.lastUsedAt)
  /\ req' = [req EXCEPT ![p].pc = "route", ![p].auth = {req[p].loc.userId},
                         ![p].loc = Null]
  /\ UNCHANGED <<users, nextUserId, nextToken, nextReset>>
  /\ TimerUnchanged /\ HistoryUnchanged

-----------------------------------------------------------------------------
(* service/user *)

\* User.findOne({ where: { email } })
findByEmail(email) == {u \in users : u.email = email}

\* User.findOne({ where: { passwordResetToken } }); a null value reads IS NULL
findByPasswordResetToken(token) == {u \in users : u.passwordResetToken = token}

\* faulty variant: no user is ever found
getUserNobody(id) == {}

\* User.findOne({ where: { id, inactive: false } })
getUser(id) == {u \in users : u.id = id /\ ~u.inactive}

\* User.destroy({ where: { id } })
deleteUser(rows, id) == {u \in rows : u.id # id}

\* faulty variants: every user is activated; the first inactive user is found
activateSaveEvery(rows, id) ==
  {[u EXCEPT !.inactive = FALSE, !.activationToken = Null] : u \in rows}
findByActivationTokenLoose(token) == {u \in users : u.inactive}
activateSaveKeepsToken(rows, id) ==
  {IF u.id = id THEN [u EXCEPT !.inactive = FALSE] ELSE u : u \in rows}
activateSaveKeepsInactive(rows, id) ==
  {IF u.id = id THEN [u EXCEPT !.activationToken = Null] ELSE u : u \in rows}

\* User.findOne({ where: { activationToken: token } })
findByActivationToken(token) == {u \in users : u.activationToken = token}

\* user.inactive = false; user.activationToken = null; await user.save()
activateSave(rows, id) ==
  {IF u.id = id THEN [u EXCEPT !.inactive = FALSE, !.activationToken = Null] ELSE u
     : u \in rows}

\* faulty variant: every user gets the token
resetSaveEvery(rows, id, token) ==
  {[u EXCEPT !.passwordResetToken = token] : u \in rows}
resetSaveNothing(rows, id, token) == rows

\* user.passwordResetToken = passwordResetToken; await user.save()
resetSave(rows, id, token) ==
  {IF u.id = id THEN [u EXCEPT !.passwordResetToken = token] ELSE u : u \in rows}

\* faulty variant: the reset token stays on the row
passwordSaveKeepsToken(rows, id, hash) ==
  {IF u.id = id THEN [u EXCEPT !.password = hash] ELSE u : u \in rows}

\* user.password = hash; user.passwordResetToken = null; await user.save()
passwordSave(rows, id, hash) ==
  {IF u.id = id THEN [u EXCEPT !.password = hash, !.passwordResetToken = Null] ELSE u
     : u \in rows}

-----------------------------------------------------------------------------
(* router/auth: POST /api/1.0/auth and POST /api/1.0/logout *)

\* faulty variants: every password matches; the inactive check comes first
authenticateAnyPassword(user, password) ==
  IF user.inactive THEN FORBIDDEN ELSE OK
authenticateInactiveFirst(user, password) ==
  IF user.inactive THEN FORBIDDEN
  ELSE IF ~Compare(password, user.password) THEN UNAUTHORIZED
  ELSE OK

authenticateIgnoresInactive(user, password) ==
  IF ~Compare(password, user.password) THEN UNAUTHORIZED ELSE OK

\* bcrypt.compare, then the inactive check, for the user findByEmail returned
authenticate(user, password) ==
  IF ~Compare(password, user.password) THEN UNAUTHORIZED
  ELSE IF user.inactive THEN FORBIDDEN
  ELSE OK

\* POST /api/1.0/auth with body { email, password }, up to createToken
AuthTry(p, email, password) ==
  /\ At(p, "route")
  /\ nextToken + InFlight("auth_create") <= MaxTokens
  /\ LET found == findByEmail(email) IN
       IF found = {}
       THEN req' = [req EXCEPT ![p] = Respond("auth", UNAUTHORIZED, Null)]
       ELSE \E user \in found :
              LET status == authenticate(user, password) IN
              req' = [req EXCEPT ![p] =
                IF status # OK
                THEN Respond("auth", status, Null)
                ELSE Await("auth", "auth_create",
                           [email |-> email, password |-> password], user)]
  /\ DbUnchanged /\ TimerUnchanged /\ HistoryUnchanged

AuthFind(p) == \E email \in Emails, password \in Passwords : AuthTry(p, email, password)

\* TokenService.createToken(user); res.send({ id: user.id, ..., token })
\* The handler has no try/catch: a rejected Token.create answers nothing.
AuthCreate(p) ==
  /\ At(p, "auth_create")
  /\ LET token == randomString("s", nextToken) IN
       IF ForeignKeyHolds(req[p].loc.id)
       THEN /\ tokens' = createToken(tokens, req[p].loc, token, now)
            /\ req' = [req EXCEPT ![p] =
                 Respond("auth", OK, [id |-> req[p].loc.id, token |-> token])]
            /\ alive' = alive
       ELSE /\ UNCHANGED tokens
            /\ req' = [req EXCEPT ![p] = Respond("auth", 0, Null)]
            /\ UnhandledRejection
  /\ nextToken' = nextToken + 1
  /\ UNCHANGED <<users, nextUserId, nextReset, swept>>
  /\ UNCHANGED <<now, ticks, intervals, due>>

\* if (authorization) { await TokenService.deleteToken(token) }; res.send()
\* out keeps the token of the header and the number of rows the destroy removed.
LogoutDestroy(p) ==
  /\ At(p, "route")
  /\ tokens' = IF req[p].hdr # Null THEN deleteToken(tokens, req[p].hdr) ELSE tokens
  /\ req' = [req EXCEPT ![p] =
       Respond("logout", OK, [token |-> req[p].hdr,
                              deleted |-> Cardinality(tokens \ tokens')])]
  /\ UNCHANGED <<users, nextUserId, nextToken, nextReset>>
  /\ TimerUnchanged /\ HistoryUnchanged

-----------------------------------------------------------------------------
(* router/user: GET and DELETE /api/1.0/users/:id *)

\* path ids a client can ask for: the users there are, and one there is not
PathIds == UserIds \cup {nextUserId}

\* GET /api/1.0/users/:id: getUser(id), NotFoundException('USER_NOT_FOUND')
\* when there is none; req.authenticatedUser is not read
GetTry(p, id) ==
  /\ At(p, "route")
  /\ req' = [req EXCEPT ![p] =
       IF getUser(id) # {} THEN Respond("get", OK, [id |-> id])
       ELSE Respond("get", NOT_FOUND, Null)]
  /\ DbUnchanged /\ TimerUnchanged /\ HistoryUnchanged

GetFind(p) == \E id \in PathIds : GetTry(p, id)

\* faulty variant: any principal will do
AuthorizedAnyone(auth, id) == auth # {}

\* !(!authenticatedUser || authenticatedUser.id !== Number.parseInt(req.params.id))
Authorized(auth, id) == auth = {id}

\* DELETE /api/1.0/users/:id: ForbiddenException unless authorized; else
\* deleteUser(authenticatedUser.id), and the tokens go with the cascade.
\* out of a refusal keeps the token of the header; out of a success the id
\* and the number of token rows that went.
DeleteTry(p, id) ==
  /\ At(p, "route")
  /\ IF ~Authorized(req[p].auth, id)
     THEN /\ UNCHANGED <<users, tokens>>
          /\ req' = [req EXCEPT ![p] =
               Respond("delete", FORBIDDEN, [token |-> req[p].hdr])]
     ELSE /\ users' = deleteUser(users, id)
          /\ tokens' = Cascade(tokens, id)
          /\ req' = [req EXCEPT ![p] =
               Respond("delete", OK, [id |-> id,
                                      deleted |-> Cardinality(tokens \ tokens')])]
  /\ UNCHANGED <<nextUserId, nextToken, nextReset>>
  /\ TimerUnchanged /\ HistoryUnchanged

DeleteDestroy(p) == \E id \in PathIds : DeleteTry(p, id)

\* check('username'): notEmpty, isLength({ min: 4, max: 32 })
Short == "axe"
ValidUsername(username) == username \in Usernames

\* user.username = body.username; await user.save()
updateSave(rows, id, username) ==
  {IF u.id = id THEN [u EXCEPT !.username = username] ELSE u : u \in rows}

\* PUT /api/1.0/users/:id: ForbiddenException unless authorized, then the
\* validation result, then updateUser: User.findOne({ where: { id } }).
\* A null user throws on user.username = ..., passed to next(error).
\* out of a refusal keeps the id of the path and the token of the header.
UpdateTry(p, id, username) ==
  /\ At(p, "route")
  /\ IF ~Authorized(req[p].auth, id)
     THEN req' = [req EXCEPT ![p] =
            Respond("update", FORBIDDEN, [id |-> id, token |-> req[p].hdr])]
     ELSE IF ~ValidUsername(username)
     THEN req' = [req EXCEPT ![p] = Respond("update", BAD_REQUEST, Null)]
     ELSE LET found == {u \in users : u.id = id} IN
          IF found = {}
          THEN req' = [req EXCEPT ![p] = Respond("update", SERVER_ERROR, Null)]
          ELSE \E u \in found :
                 req' = [req EXCEPT ![p] =
                   Await("update", "update_save",
                         [id |-> id, username |-> username], u)]
  /\ DbUnchanged /\ TimerUnchanged /\ HistoryUnchanged

UpdateFind(p) ==
  \E id \in PathIds, username \in Usernames \cup {Short} : UpdateTry(p, id, username)

\* await user.save(); res.send({ id, username, email, profileImage })
\* The image of the body and the file service are left out.
UpdateSave(p) ==
  /\ At(p, "update_save")
  /\ users' = updateSave(users, req[p].loc.id, req[p].arg.username)
  /\ req' = [req EXCEPT ![p] =
       Respond("update", OK, [id |-> req[p].arg.id,
                              username |-> req[p].arg.username])]
  /\ UNCHANGED <<tokens, nextUserId, nextToken, nextReset>>
  /\ TimerUnchanged /\ HistoryUnchanged

-----------------------------------------------------------------------------
(* service/token scheduleCleanup and the clock *)

\* scheduleCleanup is exported by the token service; neither index.js nor
\* app.js calls it, so a timer exists only when some other caller creates it.
\* Such a caller does so once, as a startup step would.
ScheduleCleanup ==
  /\ alive
  /\ intervals = 0
  /\ intervals' = intervals + 1
  /\ UNCHANGED <<now, ticks, due, alive, req>>
  /\ DbUnchanged /\ HistoryUnchanged

\* Time passes. Every step is longer than the timers' hour, so each timer has
\* a callback due afterwards, and they run before time passes again.
TickBy(d) ==
  /\ alive
  /\ due = 0
  /\ ticks < MaxTicks
  /\ now' = now + d
  /\ ticks' = ticks + 1
  /\ due' = intervals
  /\ UNCHANGED <<intervals, alive, req>>
  /\ DbUnchanged /\ HistoryUnchanged

Tick == \E d \in Deltas : TickBy(d)

\* setInterval(async () => { await Token.destroy(stale) }, 60 * 60 * 1000)
\* The callback has no try/catch: a failing destroy rejects its promise.
CleanupRun(failed) ==
  /\ alive
  /\ due > 0
  /\ due' = due - 1
  /\ IF failed
     THEN UNCHANGED <<tokens, swept>> /\ UnhandledRejection
     ELSE /\ tokens' = cleanup(tokens, now)
          /\ swept' = swept \cup {r.token : r \in tokens \ tokens'}
          /\ alive' = alive
  /\ UNCHANGED <<users, nextUserId, nextToken, nextReset, now, ticks, intervals,
                 req>>

Cleanup == \E failed \in BOOLEAN : CleanupRun(failed)

-----------------------------------------------------------------------------
(* router/user: POST /api/1.0/users and POST /api/1.0/users/token/:token *)

\* faulty variant: every password passes
ValidPasswordAny(password) == TRUE

\* check('password'): notEmpty, isLength({ min: 6 }) and
\* matches(/^(?=.*[a-z])(?=.*[A-Z])(?=.*\d).*$/). Of the passwords here,
\* "weak" is too short and "test1234" has no upper-case letter.
Weak == "weak"
ValidPassword(password) == password = "P4ssword"

\* what a request body can carry for a field the route does not ask for, as
\* the set of the values given: nothing, or inactive: false
BodyInactive == {{}, {FALSE}}

\* check('email')...custom(findByEmail): EMAIL_IN_USE is a validation error,
\* as is a password the checks refuse
RegisterValidate(p) ==
  /\ At(p, "route")
  /\ nextUserId + InFlight("register_create") <= MaxUserId
  /\ \E email \in Emails, password \in Passwords, inactive \in BodyInactive :
       req' = [req EXCEPT ![p] =
         IF findByEmail(email) # {} \/ ~ValidPassword(password)
         THEN Respond("register", BAD_REQUEST, Null)
         ELSE Await("register", "register_create",
                    [email |-> email, password |-> password,
                     inactive |-> inactive], Null)]
  /\ DbUnchanged /\ TimerUnchanged /\ HistoryUnchanged

\* faulty variants: the whole body goes into the row; the unique index is not there
newUserSpread(id, body, hash, activationToken) ==
  [UserRow(id, body.email, hash, activationToken)
     EXCEPT !.inactive = \A given \in body.inactive : given]
EmailIndexNothing(rows, email) == TRUE

\* const { username, email, password } = body;
\* const user = { username, email, password: hash, activationToken }
\* inactive is not among the fields taken, so the row gets the default.
newUser(id, body, hash, activationToken) ==
  UserRow(id, body.email, hash, activationToken)

\* email: { type: Sequelize.STRING, unique: true }: the index accepts a row
\* when no row of the table has its email
EmailIndexHolds(rows, email) == \A u \in rows : u.email # email

\* saveUser: hash, randomString(16), transaction, User.create(user, { transaction })
\* The row is invisible to other requests until the commit; the unique index
\* on email rejects the insert when a committed row has the email.
RegisterCreate(p) ==
  /\ At(p, "register_create")
  /\ IF ~EmailIndexHolds(users, req[p].arg.email)
     THEN /\ req' = [req EXCEPT ![p] = Respond("register", SERVER_ERROR, Null)]
          /\ UNCHANGED nextUserId
     ELSE /\ req' = [req EXCEPT ![p].pc = "register_email",
                        ![p].loc = newUser(nextUserId, req[p].arg,
                                           Hash(req[p].arg.password),
                                           randomString("a", nextUserId))]
          /\ nextUserId' = nextUserId + 1
  /\ UNCHANGED <<users, tokens, nextToken, nextReset>>
  /\ TimerUnchanged /\ HistoryUnchanged

\* faulty variant: the row stays after the rollback
rollbackKeeps(rows, user) == rows \cup {user}

\* await transaction.commit(): the row created in the transaction shows
commit(rows, user) == rows \cup {user}

\* await transaction.rollback(): the row created in the transaction is dropped
rollback(rows, user) == rows

\* try { sendActivationToken; commit } catch { rollback; throw EmailException }
\* A commit the unique index refuses throws inside the try as a failed email
\* does. out keeps the email and the inactive field of the body.
RegisterEmail(p) ==
  /\ At(p, "register_email")
  /\ \E sent \in BOOLEAN :
       IF sent /\ EmailIndexHolds(users, req[p].arg.email)
       THEN /\ users' = commit(users, req[p].loc)
            /\ req' = [req EXCEPT ![p] =
                 Respond("register", OK, [email |-> req[p].arg.email,
                                          inactive |-> req[p].arg.inactive])]
       ELSE /\ users' = rollback(users, req[p].loc)
            /\ req' = [req EXCEPT ![p] =
                 Respond("register", BAD_GATEWAY,
                         [email |-> req[p].arg.email,
                          inactive |-> req[p].arg.inactive])]
  /\ UNCHANGED <<tokens, nextUserId, nextToken, nextReset>>
  /\ TimerUnchanged /\ HistoryUnchanged

\* activate: findOne, InvalidTokenException when no user has the token
\* out of a refusal keeps the token of the path.
ActivateTry(p, token) ==
  /\ At(p, "route")
  /\ LET found == findByActivationToken(token) IN
       IF found = {}
       THEN req' = [req EXCEPT ![p] =
              Respond("activate", BAD_REQUEST, [token |-> token])]
       ELSE \E u \in found :
              req' = [req EXCEPT ![p] =
                Await("activate", "activate_save", [token |-> token], u)]
  /\ DbUnchanged /\ TimerUnchanged /\ HistoryUnchanged

\* the token of the path: one that was mailed, or a guess
ActivateFind(p) == \E token \in ActivationValues \cup {Bogus} : ActivateTry(p, token)

ActivateSave(p) ==
  /\ At(p, "activate_save")
  /\ users' = activateSave(users, req[p].loc.id)
  /\ req' = [req EXCEPT ![p] = Respond("activate", OK, Null)]
  /\ UNCHANGED <<tokens, nextUserId, nextToken, nextReset>>
  /\ TimerUnchanged /\ HistoryUnchanged

-----------------------------------------------------------------------------
(* router/user: POST /api/1.0/user/password-reset and PUT /api/1.0/user/password *)

\* passwordResetRequest: findByEmail, NotFoundException when there is none
ResetTry(p, email) ==
  /\ At(p, "route")
  /\ findByEmail(email) # {} => nextReset + InFlight("reset_save") <= MaxResets
  /\ LET found == findByEmail(email) IN
       IF found = {}
       THEN req' = [req EXCEPT ![p] = Respond("reset", NOT_FOUND, Null)]
       ELSE \E u \in found :
              req' = [req EXCEPT ![p] =
                Await("reset", "reset_save", [email |-> email], u)]
  /\ DbUnchanged /\ TimerUnchanged /\ HistoryUnchanged

\* the email of the body: one of a user, or one nobody registered
UnknownEmail == "randomuser@xyz.com"

ResetFind(p) == \E email \in Emails \cup {UnknownEmail} : ResetTry(p, email)

\* user.passwordResetToken = await randomString(16); await user.save()
ResetSave(p) ==
  /\ At(p, "reset_save")
  /\ users' = resetSave(users, req[p].loc.id, randomString("r", nextReset))
  /\ nextReset' = nextReset + 1
  /\ req' = [req EXCEPT ![p].pc = "reset_email"]
  /\ UNCHANGED <<tokens, nextUserId, nextToken>>
  /\ TimerUnchanged /\ HistoryUnchanged

\* try { sendPasswordResetToken } catch { throw new EmailException() }
ResetEmail(p) ==
  /\ At(p, "reset_email")
  /\ \E sent \in BOOLEAN :
       req' = [req EXCEPT ![p] =
         Respond("reset", IF sent THEN OK ELSE BAD_GATEWAY, Null)]
  /\ DbUnchanged /\ TimerUnchanged /\ HistoryUnchanged

\* validatePasswordResetToken, then the validation result of the password
\* out of a 400 keeps the token of the body.
PasswordTry(p, token, password) ==
  /\ At(p, "route")
  /\ req' = [req EXCEPT ![p] =
       IF findByPasswordResetToken(token) = {}
       THEN Respond("password", FORBIDDEN, Null)
       ELSE IF ~ValidPassword(password)
       THEN Respond("password", BAD_REQUEST, [token |-> token])
       ELSE Await("password", "password_find",
                  [passwordResetToken |-> token, password |-> password], Null)]
  /\ DbUnchanged /\ TimerUnchanged /\ HistoryUnchanged

\* the passwordResetToken of the body: one that was mailed, a guess, or null
BodyResetTokens == ResetValues \cup {Bogus, Null}

PasswordValidate(p) ==
  \E token \in BodyResetTokens, password \in Passwords \cup {Weak} :
    PasswordTry(p, token, password)

\* updatePassword: const user = await User.findOne(...); a null user throws
\* on user.password = hash, which the handler passes to next(error)
PasswordFind(p) ==
  /\ At(p, "password_find")
  /\ LET found == findByPasswordResetToken(req[p].arg.passwordResetToken) IN
       IF found = {}
       THEN req' = [req EXCEPT ![p] = Respond("password", SERVER_ERROR, Null)]
       ELSE \E u \in found :
              req' = [req EXCEPT ![p].pc = "password_save", ![p].loc = u]
  /\ DbUnchanged /\ TimerUnchanged /\ HistoryUnchanged

\* user.password = hash; user.passwordResetToken = null; await user.save()
PasswordSave(p) ==
  /\ At(p, "password_save")
  /\ users' = passwordSave(users, req[p].loc.id, Hash(req[p].arg.password))
  /\ req' = [req EXCEPT ![p].pc = "password_clear"]
  /\ UNCHANGED <<tokens, nextUserId, nextToken, nextReset>>
  /\ TimerUnchanged /\ HistoryUnchanged

\* await TokenService.clearTokens(user.id); res.send()
\* out keeps the user, the reset token used and the number of rows removed.
PasswordClear(p) ==
  /\ At(p, "password_clear")
  /\ tokens' = clearTokens(tokens, req[p].loc.id)
  /\ req' = [req EXCEPT ![p] =
       Respond("password", OK, [id |-> req[p].loc.id,
                                token |-> req[p].arg.passwordResetToken,
                                deleted |-> Cardinality(tokens \ tokens')])]
  /\ UNCHANGED <<users, nextUserId, nextToken, nextReset>>
  /\ TimerUnchanged /\ HistoryUnchanged

-----------------------------------------------------------------------------
(* middleware/basicAuthentication, and the routes of the router's earlier *)
(* version that run it: GET /api/1.0/users and PUT /api/1.0/users/:id     *)

\* Authorization: Basic base64(email:password), decoded and split at ':'
Credentials ==
  {<<email, password>> : email \in Emails \cup {UnknownEmail}, password \in Passwords}

\* if (authorization) { findByEmail; !user: next(new ForbiddenException());
\* user && !user.inactive: compare, req.authenticatedUser = user on a match }
\* next()
BasicTry(p, hdr) ==
  /\ Free(p)
  /\ req' = [req EXCEPT ![p] =
       IF hdr = Null
       THEN [Idle EXCEPT !.pc = "basic_route"]
       ELSE LET found == findByEmail(hdr[1]) IN
            IF found = {}
            THEN Respond("basic", FORBIDDEN, Null)
            ELSE [Idle EXCEPT
                    !.pc = "basic_route", !.hdr = hdr,
                    !.auth = {u.id : u \in {v \in found :
                                ~v.inactive /\ Compare(hdr[2], v.password)}}]]
  /\ DbUnchanged /\ TimerUnchanged /\ HistoryUnchanged

basicAuthentication(p) == \E hdr \in Credentials \cup {Null} : BasicTry(p, hdr)

\* getUsers: where: { inactive: false, id: { [Op.not]: authenticatedUser.id or 0 } }
\* out keeps the ids of the page.
ListUsers(p) ==
  /\ At(p, "basic_route")
  /\ req' = [req EXCEPT ![p] =
       Respond("list", OK,
               [content |-> {u.id : u \in {v \in users :
                               ~v.inactive /\ v.id \notin req[p].auth}}])]
  /\ DbUnchanged /\ TimerUnchanged /\ HistoryUnchanged

\* PUT /api/1.0/users/:id: ForbiddenException unless authorized, then
\* updateUser: User.findOne({ where: { id } }). The handler has no try/catch:
\* a null user rejects its promise and nothing is answered.
BasicUpdateTry(p, id, username) ==
  /\ At(p, "basic_route")
  /\ IF ~Authorized(req[p].auth, id)
     THEN req' = [req EXCEPT ![p] = Respond("update", FORBIDDEN, Null)] /\ alive' = alive
     ELSE LET found == {u \in users : u.id = id} IN
          IF found = {}
          THEN req' = [req EXCEPT ![p] = Respond("update", 0, Null)] /\ UnhandledRejection
          ELSE /\ \E u \in found :
                    req' = [req EXCEPT ![p] =
                      Await("update", "update_save",
                            [id |-> id, username |-> username], u)]
               /\ alive' = alive
  /\ DbUnchanged /\ HistoryUnchanged
  /\ UNCHANGED <<now, ticks, intervals, due>>

BasicUpdateFind(p) ==
  \E id \in PathIds, username \in Usernames : BasicUpdateTry(p, id, username)

-----------------------------------------------------------------------------
(* middleware/pagination and GET /api/1.0/users *)

\* A value of the query string: the decimal text of an integer, a text with
\* no leading digits such as 'page', or nothing (the parameter is absent).
QueryValues == {<<"int", n>> : n \in (0 - 1)..MaxQuery} \cup {<<"text">>, Null}

\* Number.parseInt(value): the integer, or NaN
NaN == [nan |-> TRUE, n |-> 0]
parseInt(value) ==
  IF Len(value) = 2 /\ value[1] = "int" THEN [nan |-> FALSE, n |-> value[2]] ELSE NaN

\* faulty variant: a size above ten passes
paginationNoMax(query) ==
  LET pageNumber == parseInt(query.page)
      pageSize == parseInt(query.pageSize)
      page == IF pageNumber.nan THEN 1 ELSE pageNumber.n
      size == IF pageSize.nan THEN 10 ELSE pageSize.n
  IN  [page |-> IF page < 1 THEN 1 ELSE page,
       size |-> IF size < 1 THEN 10 ELSE size]

\* let page = Number.isNaN(pageNumber) ? 1 : pageNumber; if (page < 1) page = 1
\* let size = Number.isNaN(pageSize) ? 10 : pageSize;
\* if (size < 1 || size > 10) size = 10
pagination(query) ==
  LET pageNumber == parseInt(query.page)
      pageSize == parseInt(query.pageSize)
      page == IF pageNumber.nan THEN 1 ELSE pageNumber.n
      size == IF pageSize.nan THEN 10 ELSE pageSize.n
  IN  [page |-> IF page < 1 THEN 1 ELSE page,
       size |-> IF size < 1 \/ size > 10 THEN 10 ELSE size]

\* Math.ceil(count / pageSize)
totalPages(count, size) == (count + size - 1) \div size

\* findAndCountAll({ where: { inactive: false, id: { [Op.not]: id or 0 } },
\* limit: pageSize, offset: (page - 1) * pageSize }): the ids of the page,
\* rows taken in the order of their ids, and the count of all rows matching
getUsers(page, size, auth) ==
  LET match == {u.id : u \in {v \in users : ~v.inactive /\ v.id \notin auth}}
      rank(id) == Cardinality({other \in match : other < id})
  IN  [content |-> {id \in match : rank(id) >= (page - 1) * size
                                   /\ rank(id) < page * size},
       page |-> page, size |-> size,
       totalPages |-> totalPages(Cardinality(match), size)]

\* pagination: req.pagination = { page, size }; next()
Pagination(p) ==
  /\ At(p, "route")
  /\ \E page \in QueryValues, pageSize \in QueryValues :
       LET query == [page |-> page, pageSize |-> pageSize] IN
       req' = [req EXCEPT ![p].op = "list", ![p].pc = "list", ![p].arg = query,
                          ![p].loc = pagination(query)]
  /\ DbUnchanged /\ TimerUnchanged /\ HistoryUnchanged

\* const users = await UserService.getUsers(page, size, authenticatedUser);
\* res.send({ users })
ListPage(p) ==
  /\ At(p, "list")
  /\ req' = [req EXCEPT ![p] =
       Respond("list", OK, getUsers(req[p].loc.page, req[p].loc.size, req[p].auth))]
  /\ DbUnchanged /\ TimerUnchanged /\ HistoryUnchanged

-----------------------------------------------------------------------------
(* The system *)

Gateway(p) == Request(p) \/ VerifyFind(p) \/ VerifySave(p)
Register(p) == RegisterValidate(p) \/ RegisterCreate(p) \/ RegisterEmail(p)
Activate(p) == ActivateFind(p) \/ ActivateSave(p)
Login(p) == AuthFind(p) \/ AuthCreate(p)
PasswordReset(p) == ResetFind(p) \/ ResetSave(p) \/ ResetEmail(p)
PasswordUpdate(p) ==
  PasswordValidate(p) \/ PasswordFind(p) \/ PasswordSave(p) \/ PasswordClear(p)
Update(p) == UpdateFind(p) \/ UpdateSave(p)

\* index.js syncs an empty database and starts listening; no timer is set.
Started(rows, id) ==
  /\ users = rows
  /\ tokens = {}
  /\ now = 0
  /\ ticks = 0
  /\ nextUserId = id
  /\ nextToken = 1
  /\ nextReset = 1
  /\ intervals = 0
  /\ due = 0
  /\ alive = TRUE
  /\ req = [p \in Procs |-> Idle]
  /\ swept = {}

\* a user after POST /users and POST /users/token/:token
Activated(id, email, password) ==
  [UserRow(id, email, Hash(password), Null) EXCEPT !.inactive = FALSE]

TwoUsers == {Activated(1, "user1@xyz.com", "test1234"),
             Activated(2, "user2@xyz.com", "test1234")}

(* Session tokens over time, one request at a time, for two activated users *)
Init == Started(TwoUsers, 3)

Next ==
  \/ Gateway(1) \/ Login(1) \/ LogoutDestroy(1) \/ GetFind(1) \/ DeleteDestroy(1)
  \/ ScheduleCleanup \/ Tick \/ Cleanup

Spec == Init /\ [][Next]_vars

(* Session tokens in use over time: logins, token checks and a route that *)
(* asks for no authentication, one request at a time, no cleanup          *)
RefreshNext == Gateway(1) \/ Login(1) \/ GetFind(1) \/ Tick

RefreshSpec == Init /\ [][RefreshNext]_vars

(* Logins, token checks and logouts over time, one request at a time *)
SessionNext == Gateway(1) \/ Login(1) \/ LogoutDestroy(1) \/ Tick

SessionSpec == Init /\ [][SessionNext]_vars

(* The cleanup timer over logins and token checks, one request at a time *)
SweepNext == Gateway(1) \/ Login(1) \/ ScheduleCleanup \/ Tick \/ Cleanup

SweepSpec == Init /\ [][SweepNext]_vars

(* Password reset and update, one request at a time, for the same two users *)
ResetNext == Gateway(1) \/ Login(1) \/ PasswordReset(1) \/ PasswordUpdate(1)

ResetSpec == Init /\ [][ResetNext]_vars

(* Accounts from an empty database: register, activate, log in, update, log out *)
AccountInit == Started({}, 1)

AccountNext ==
  \/ Gateway(1) \/ Register(1) \/ Activate(1) \/ Login(1) \/ LogoutDestroy(1)
  \/ Update(1)

AccountSpec == AccountInit /\ [][AccountNext]_vars

(* The life of one account from an empty database: every operation that *)
(* writes a user row, one request at a time; clients register while the  *)
(* users table is empty                                                  *)
RegisterFirst(p) == users = {} /\ Register(p)

LifecycleNext ==
  \/ Gateway(1) \/ RegisterFirst(1) \/ Activate(1) \/ Login(1)
  \/ Update(1) \/ PasswordReset(1) \/ PasswordUpdate(1)

LifecycleSpec == AccountInit /\ [][LifecycleNext]_vars

(* Registration and activation from an empty database, two requests at a *)
(* time; no token is stored, so the gateway turns every header down      *)
RegisterNext ==
  \E p \in Procs : Request(p) \/ VerifyFind(p) \/ Register(p) \/ Activate(p)

RegisterSpec == AccountInit /\ [][RegisterNext]_vars

(* Password reset and update for the two users, two requests at a time; *)
(* no token is stored, so the gateway turns every header down           *)
PasswordRaceNext ==
  \E p \in Procs :
    Request(p) \/ VerifyFind(p) \/ PasswordReset(p) \/ PasswordUpdate(p)

PasswordRaceSpec == Init /\ [][PasswordRaceNext]_vars

(* The routes behind basic authentication, two requests at a time, for an *)
(* active user and a user that registered and was not activated          *)
OneInactive == {Activated(1, "user1@xyz.com", "test1234"),
                UserRow(2, "user2@xyz.com", Hash("test1234"), randomString("a", 2))}

BasicInit == Started(OneInactive, 3)

BasicNext ==
  \E p \in Procs :
    basicAuthentication(p) \/ ListUsers(p) \/ BasicUpdateFind(p) \/ UpdateSave(p)

BasicSpec == BasicInit /\ [][BasicNext]_vars

(* The user listing for the two activated users, over the values of the *)
(* page and pageSize parameters                                         *)
ListingNext ==
  Gateway(1) \/ Login(1) \/ Pagination(1) \/ ListPage(1)

ListingSpec == Init /\ [][ListingNext]_vars

(* Session tokens of one activated user who asked for a password reset   *)
(* and logged in, two requests at a time: the gateway's read and write of *)
(* either request interleave with the logins, the logouts, the password   *)
(* update, the deletion of the account and the sweep, a week passing at a *)
(* time                                                                   *)
ResetRequested(id, email, password) ==
  [Activated(id, email, password) EXCEPT !.passwordResetToken = randomString("r", id)]

\* the user asked for a password reset; nobody logged in yet
ResetRequestedInit ==
  /\ users = {ResetRequested(1, "user1@xyz.com", "test1234")}
  /\ tokens = {}
  /\ now = 0
  /\ ticks = 0
  /\ nextUserId = 2
  /\ nextToken = 1
  /\ nextReset = 2
  /\ intervals = 0
  /\ due = 0
  /\ alive = TRUE
  /\ req = [p \in Procs |-> Idle]
  /\ swept = {}

\* the user asked for a password reset and logged in
RevokeRaceInit ==
  /\ users = {ResetRequested(1, "user1@xyz.com", "test1234")}
  /\ tokens = {TokenRow(randomString("s", 1), 1, 0)}
  /\ now = 0
  /\ ticks = 0
  /\ nextUserId = 2
  /\ nextToken = 2
  /\ nextReset = 2
  /\ intervals = 0
  /\ due = 0
  /\ alive = TRUE
  /\ req = [p \in Procs |-> Idle]
  /\ swept = {}

RevokeRaceNext ==
  \/ \E p \in Procs : Gateway(p) \/ LogoutDestroy(p)
  \/ Login(1) \/ DeleteDestroy(1) \/ PasswordUpdate(1)
  \/ ScheduleCleanup \/ TickBy(ONE_WEEK_AGO_IN_MILLIS) \/ Cleanup

RevokeRaceSpec == RevokeRaceInit /\ [][RevokeRaceNext]_vars

(* Session tokens of one activated user, two requests at a time: the    *)
(* gateway's read and write of one request interleave with those of the *)
(* other, six days passing at a time                                    *)
OneUser == {Activated(1, "user1@xyz.com", "test1234")}

VerifyRaceInit == Started(OneUser, 2)

VerifyRaceNext ==
  \/ \E p \in Procs : Gateway(p) \/ Login(p) \/ LogoutDestroy(p)
  \/ TickBy(SIX_DAYS)

VerifyRaceSpec == VerifyRaceInit /\ [][VerifyRaceNext]_vars

(* Logins and the password update of the user who asked for a reset, two *)
(* requests at a time                                                    *)
LoginRaceNext ==
  \E p \in Procs : Gateway(p) \/ Login(p) \/ PasswordUpdate(p)

LoginRaceSpec == ResetRequestedInit /\ [][LoginRaceNext]_vars

(* Logins, token checks and account deletions of the two activated users, *)
(* two requests at a time                                                 *)
DeleteRaceNext ==
  \E p \in Procs : Gateway(p) \/ Login(p) \/ DeleteDestroy(p)

DeleteRaceSpec == Init /\ [][DeleteRaceNext]_vars

(* Every operation that deletes session tokens, for the two activated *)
(* users, one request at a time                                       *)
RevokeNext ==
  \/ Gateway(1) \/ Login(1) \/ LogoutDestroy(1) \/ DeleteDestroy(1)
  \/ PasswordReset(1) \/ PasswordUpdate(1)

RevokeSpec == Init /\ [][RevokeNext]_vars

(* The protected routes, for the two activated users, a week passing at a time *)
ProtectedNext ==
  \/ Gateway(1) \/ Login(1) \/ LogoutDestroy(1) \/ Update(1) \/ DeleteDestroy(1)
  \/ TickBy(ONE_WEEK_AGO_IN_MILLIS)

ProtectedSpec == Init /\ [][ProtectedNext]_vars

-----------------------------------------------------------------------------
(* Properties *)

RowsOf(rows, token) == {r \in rows : r.token = token}
OwnedBy(rows, userId) == {r \in rows : r.userId = userId}
Age(r) == now - r.lastUsedAt
Answered(p, op, status) ==
  req[p].pc = "done" /\ req[p].op = op /\ req[p].status = status

\* C1: the token a successful login returned is stored for the user the login
\* answered for, and while less than the TTL has passed since it was issued
\* verify finds exactly that row; a request that presents the token at the
\* instant of issue leaves the gateway with that user as its principal.
C1_IssuedTokenVerifies ==
  \A p \in Procs :
    /\ Answered(p, "auth", OK) =>
         \/ req[p].out.token \in swept
         \/ \E r \in tokens :
              /\ r.token = req[p].out.token
              /\ r.userId = req[p].out.id
              /\ now - r.issuedAt < ONE_WEEK_AGO_IN_MILLIS =>
                   verifyFind(tokens, r.token, now) = {r}
    /\ req[p].pc = "route" =>
         \A r \in RowsOf(tokens, req[p].hdr) :
           r.issuedAt = now => req[p].auth = {r.userId}

C1_Witness ==
  \E p \in Procs : \E r \in tokens :
    /\ req[p].pc = "route" /\ req[p].hdr = r.token
    /\ r.issuedAt = now /\ r.userId = 2 /\ req[p].auth = {2}

\* C2: logout with a token leaves no row for it; a token without a row never
\* gets one again; and the gateway, which reads the table on every request,
\* attaches no principal to a request whose token has no row.
C2_RevokedStaysInvalid ==
  [][\A p \in Procs :
       /\ (LogoutDestroy(p) /\ req[p].hdr # Null) => RowsOf(tokens', req[p].hdr) = {}
       /\ \A t \in Bearers : RowsOf(tokens, t) = {} => RowsOf(tokens', t) = {}
       /\ (VerifyFind(p) /\ RowsOf(tokens, req[p].hdr) = {}) =>
            req'[p].pc = "route" /\ req'[p].auth = {}
       /\ (req[p].pc = "route" /\ req[p].auth = {}) =>
            (req'[p].pc = "route" => req'[p].auth = {})]_vars

\* Both users still exist and nothing was swept, so only logout can have
\* removed the row of the token presented.
C2_Witness ==
  \E p \in Procs :
    /\ req[p].pc = "route" /\ req[p].hdr \in SessionValues /\ req[p].auth = {}
    /\ RowsOf(tokens, req[p].hdr) = {}
    /\ swept = {} /\ users = TwoUsers /\ ticks = 0

\* C3: logout with a token that has no row (never issued, or revoked before)
\* answers 200 and leaves the table as it is; deleting a token twice gives
\* the table that deleting it once gives.
C3_RevokeIdempotent ==
  [][/\ \A t \in Bearers :
          deleteToken(deleteToken(tokens, t), t) = deleteToken(tokens, t)
     /\ \A p \in Procs :
          (LogoutDestroy(p) /\ req[p].hdr # Null /\ RowsOf(tokens, req[p].hdr) = {}) =>
            tokens' = tokens /\ req'[p].status = OK]_vars

C3_Witness ==
  \E p \in Procs :
    /\ Answered(p, "logout", OK)
    /\ req[p].out.token \in SessionValues /\ req[p].out.deleted = 0
    /\ tokens # {} /\ swept = {} /\ users = TwoUsers /\ ticks = 0

\* C4: clearTokens of updatePassword removes every row of the user, whatever
\* their number, keeps every row of other users, answers 200, leaves no token
\* of the user that verify finds, and a second clearTokens changes nothing.
C4_RevokeAll ==
  [][\A p \in Procs :
       PasswordClear(p) =>
         /\ OwnedBy(tokens', req[p].loc.id) = {}
         /\ tokens' = tokens \ OwnedBy(tokens, req[p].loc.id)
         /\ \A r \in OwnedBy(tokens, req[p].loc.id) :
              verifyFind(tokens', r.token, now) = {}
         /\ clearTokens(tokens', req[p].loc.id) = tokens'
         /\ req'[p].pc = "done" /\ req'[p].status = OK]_vars

C4_Witness ==
  \E p \in Procs :
    /\ Answered(p, "password", OK)
    /\ req[p].out.deleted = 2 /\ tokens = {}

C6_RefreshOnUse ==
  [][\A p \in Procs :
       /\ (VerifyFind(p) /\ req'[p].pc = "verify_save") =>
            req'[p].loc.lastUsedAt = now
       /\ VerifySave(p) =>
            /\ \A r \in RowsOf(tokens', req[p].hdr) :
                 r.lastUsedAt = req[p].loc.lastUsedAt /\ req'[p].auth = {r.userId}
            /\ tokens' \ RowsOf(tokens', req[p].hdr) = tokens \ RowsOf(tokens, req[p].hdr)
            /\ req'[p].pc = "route"
       /\ (req[p].pc = "route" /\ req'[p].pc = "done") =>
            \A r \in tokens' : r \in tokens]_vars

\* A token issued twelve days ago and used six days ago is accepted on a
\* route that asks for no authentication.
C6_Witness ==
  \E p \in Procs : \E r \in tokens :
    /\ Answered(p, "get", OK)
    /\ r.issuedAt = 0 /\ now = 2 * SIX_DAYS /\ r.lastUsedAt = now

\* C7: one run of the cleanup removes exactly the rows whose lastUsedAt is
\* more than the TTL before now, and leaves every other row as it is.
C7_SweepExact ==
  [][CleanupRun(FALSE) =>
       tokens' = tokens \ {r \in tokens : Age(r) > ONE_WEEK_AGO_IN_MILLIS}]_vars

C7_Witness ==
  /\ swept # {}
  /\ \E r \in tokens : Age(r) = ONE_WEEK_AGO_IN_MILLIS

\* C8: the cleanup runs on a timer for the lifetime of the process: while the
\* process lives, a row that has gone stale is in a process whose timer is set.
C8_SweepScheduled ==
  alive => \A r \in tokens : Age(r) > ONE_WEEK_AGO_IN_MILLIS => intervals > 0

\* C9: a cleanup run that fails does not end the process.
C9_SweepFailureSwallowed ==
  [][CleanupRun(TRUE) => alive']_vars

\* C10: when updatePassword completes for the user found by the reset token,
\* the user's hash is the hash of the new password, the user's reset token is
\* null, and no session token of the user remains; verify finds none of the
\* tokens the user had.
C10_PasswordUpdated ==
  [][\A p \in Procs :
       /\ (PasswordFind(p) /\ req'[p].pc = "password_save") =>
            req'[p].loc.passwordResetToken = req[p].arg.passwordResetToken
       /\ PasswordClear(p) =>
            /\ \A u \in users' :
                 u.id = req[p].loc.id =>
                   /\ Compare(req[p].arg.password, u.password)
                   /\ u.passwordResetToken = Null
            /\ \A r \in tokens :
                 r.userId = req[p].loc.id => verifyFind(tokens', r.token, now) = {}
            /\ OwnedBy(tokens', req[p].loc.id) = {}
            /\ req'[p].status = OK]_vars

C10_Witness ==
  \E p \in Procs : \E u \in users :
    /\ Answered(p, "password", OK)
    /\ req[p].out.token \in ResetValues /\ req[p].out.deleted > 0
    /\ u.id = req[p].out.id
    /\ u.password = Hash("P4ssword") /\ u.passwordResetToken = Null
    /\ OwnedBy(tokens, u.id) = {} /\ tokens # {}

\* C11: when DELETE /users/:id of the principal completes, the user row is
\* gone and no token row of that user is left, whatever their number; the
\* rows of other users stay; no token row is without its user.
C11_DeleteAccount ==
  [][/\ \A r \in tokens : r.userId \in UserIds
     /\ \A p \in Procs : \A id \in PathIds :
          (DeleteTry(p, id) /\ req[p].auth = {id}) =>
            /\ \A u \in users' : u.id # id
            /\ OwnedBy(tokens', id) = {}
            /\ tokens' = tokens \ OwnedBy(tokens, id)
            /\ \A r \in tokens' : \E u \in users' : u.id = r.userId
            /\ req'[p].pc = "done" /\ req'[p].status = OK]_vars

C11_Witness ==
  \E p \in Procs :
    /\ Answered(p, "delete", OK)
    /\ req[p].out.deleted = 2
    /\ req[p].out.id \notin UserIds /\ OwnedBy(tokens, req[p].out.id) = {}

\* C12: starting from an empty database, a login answers 200 only for a user
\* that was registered and activated; PUT /users/:id with a valid body is
\* carried out exactly when the token of the header is stored for the user of
\* the path; logout removes the row of the token, after which the same
\* request is refused with 403.
C12_SessionLifecycle ==
  [][\A p \in Procs :
       /\ AuthCreate(p) =>
            /\ req[p].loc \in users /\ ~req[p].loc.inactive
            /\ req[p].loc.activationToken = Null
            /\ req'[p].status = OK
       /\ \A id \in PathIds : \A username \in Usernames :
            UpdateTry(p, id, username) =>
              /\ req'[p].pc = "update_save" <=>
                   \E r \in RowsOf(tokens, req[p].hdr) : r.userId = id
              /\ req'[p].pc # "update_save" =>
                   req'[p].pc = "done" /\ req'[p].status = FORBIDDEN
       /\ UpdateSave(p) => req'[p].pc = "done" /\ req'[p].status = OK
       /\ (LogoutDestroy(p) /\ req[p].hdr # Null) =>
            RowsOf(tokens', req[p].hdr) = {}]_vars

\* Only one token was ever issued; the user's name was changed with it, and
\* after the logout the same request is answered 403.
C12_Witness ==
  \E p \in Procs : \E u \in users :
    /\ Answered(p, "update", FORBIDDEN)
    /\ req[p].out.token = randomString("s", 1) /\ nextToken = 2
    /\ tokens = {}
    /\ u.id = req[p].out.id /\ ~u.inactive /\ u.username = "user1-updated"

\* C13: token values are unique; a successful login adds exactly one row,
\* with a value no row had; logout and refresh of one token leave every row
\* of another token, and what verify finds for it, as they were.
C13_TokensIndependent ==
  [][/\ \A r1, r2 \in tokens : r1.token = r2.token => r1 = r2
     /\ \A p \in Procs :
          /\ (AuthCreate(p) /\ req'[p].status = OK) =>
               \E r \in tokens' :
                 /\ RowsOf(tokens, r.token) = {}
                 /\ tokens' = tokens \cup {r}
                 /\ r.token = req'[p].out.token
          /\ (LogoutDestroy(p) \/ VerifySave(p)) =>
               \A r \in tokens :
                 r.token # req[p].hdr =>
                   /\ r \in tokens'
                   /\ verifyFind(tokens', r.token, now) = verifyFind(tokens, r.token, now)]_vars

\* Two tokens of one user, the first refreshed after the second was issued,
\* the second as it was issued, both found by verify.
C13_Witness ==
  \E r1, r2 \in tokens :
    /\ r1.userId = r2.userId /\ r1.token # r2.token
    /\ r1.issuedAt < r2.issuedAt /\ r2.lastUsedAt = r2.issuedAt
    /\ r1.lastUsedAt = now /\ r2.issuedAt < now
    /\ verifyFind(tokens, r1.token, now) = {r1}
    /\ verifyFind(tokens, r2.token, now) = {r2}

\* C14: POST /auth goes on to create a token exactly when some user has the
\* email, the password's hash and is active, and then answers 200 with exactly
\* one row added; it answers 401 when no user has the email and the password,
\* 403 when the user that has them is inactive, and adds no row in either case.
C14_LoginOutcome ==
  [][\A p \in Procs :
       /\ \A email \in Emails : \A password \in Passwords :
            AuthTry(p, email, password) =>
              LET match == {u \in users : u.email = email /\ u.password = Hash(password)}
              IN  /\ tokens' = tokens
                  /\ req'[p].pc = "auth_create" <=> \E u \in match : ~u.inactive
                  /\ match = {} =>
                       req'[p].pc = "done" /\ req'[p].status = UNAUTHORIZED
                  /\ (match # {} /\ \A u \in match : u.inactive) =>
                       req'[p].pc = "done" /\ req'[p].status = FORBIDDEN
       /\ AuthCreate(p) =>
            /\ req'[p].pc = "done" /\ req'[p].status = OK
            /\ tokens \subseteq tokens'
            /\ Cardinality(tokens' \ tokens) = 1]_vars

C14_Witness ==
  \E p \in Procs :
    /\ Answered(p, "auth", FORBIDDEN)
    /\ \E u \in users : u.inactive
    /\ \E u \in users : ~u.inactive /\ OwnedBy(tokens, u.id) # {}

\* C15: a login attempt for which no user has both the email and the password
\* gets one and the same response, whether or not a user has the email and
\* whether or not that user is active.
C15_NoEnumeration ==
  [][\A p \in Procs : \A email \in Emails : \A password \in Passwords :
       (AuthTry(p, email, password)
          /\ \A u \in users : u.email = email => u.password # Hash(password)) =>
         req'[p] = Respond("auth", UNAUTHORIZED, Null)]_vars

\* Every email belongs to an inactive user, so the 401 answers a wrong
\* password for an inactive account.
C15_Witness ==
  \E p \in Procs :
    /\ Answered(p, "auth", UNAUTHORIZED)
    /\ {u.email : u \in users} = Emails
    /\ \A u \in users : u.inactive

\* C16: POST /logout always answers 200; without a header, or with a token
\* that has no row, the tokens table stays as it is; with a token that has a
\* row, that one row goes and no other.
C16_LogoutAlwaysOk ==
  [][\A p \in Procs :
       LogoutDestroy(p) =>
         /\ req'[p].pc = "done" /\ req'[p].status = OK
         /\ req[p].hdr = Null => tokens' = tokens
         /\ RowsOf(tokens, req[p].hdr) = {} => tokens' = tokens
         /\ RowsOf(tokens, req[p].hdr) # {} =>
              /\ tokens' = tokens \ RowsOf(tokens, req[p].hdr)
              /\ Cardinality(tokens \ tokens') = 1]_vars

\* Two tokens were issued; the row of one went, the other is still there.
C16_Witness ==
  \E p \in Procs : \E r \in tokens :
    /\ Answered(p, "logout", OK)
    /\ req[p].out.deleted = 1 /\ req[p].out.token \in SessionValues
    /\ r.token # req[p].out.token
    /\ nextToken = 3

\* C17: a principal is attached only for a token that has a row, and is the
\* owner of the row; a token without a fresh row gets none. PUT and DELETE
\* /users/:id change something only when the principal is the user of the
\* path; otherwise they answer 403 and leave users and tokens as they are;
\* the refresh of the gateway touches rows of the principal only.
C17_ProtectedEndpoints ==
  [][\A p \in Procs :
       /\ (req[p].pc = "route" /\ req[p].auth # {}) =>
            \E r \in RowsOf(tokens, req[p].hdr) : req[p].auth = {r.userId}
       /\ (VerifyFind(p) /\ \A r \in RowsOf(tokens, req[p].hdr) :
                              Age(r) >= ONE_WEEK_AGO_IN_MILLIS) =>
            req'[p].pc = "route" /\ req'[p].auth = {}
       /\ \A id \in PathIds :
            /\ (DeleteTry(p, id) /\ req[p].auth # {id}) =>
                 /\ req'[p].pc = "done" /\ req'[p].status = FORBIDDEN
                 /\ users' = users /\ tokens' = tokens
            /\ \A username \in Usernames \cup {Short} :
                 UpdateTry(p, id, username) =>
                   /\ users' = users /\ tokens' = tokens
                   /\ req[p].auth # {id} =>
                        req'[p].pc = "done" /\ req'[p].status = FORBIDDEN
                   /\ req'[p].pc = "update_save" =>
                        req[p].auth = {id} /\ req'[p].arg.id = id /\ req'[p].loc.id = id
       /\ UpdateSave(p) =>
            /\ tokens' = tokens
            /\ \A u \in users : u.id # req[p].arg.id => u \in users'
       /\ VerifySave(p) =>
            /\ users' = users
            /\ \A r \in tokens : r.userId \notin req'[p].auth => r \in tokens']_vars

\* A fresh token of one user on the path of the other: 403, no name changed.
C17_Witness ==
  \E p \in Procs : \E r \in tokens :
    /\ Answered(p, "update", FORBIDDEN)
    /\ r.token = req[p].out.token /\ verifyFind(tokens, r.token, now) = {r}
    /\ r.userId # req[p].out.id /\ req[p].out.id \in UserIds
    /\ users = TwoUsers

\* C18: when verify finds no row for the token, absent or outside the window,
\* the error it fails with is InvalidToken.
InvalidToken == <<"InvalidToken">>

C18_VerifyFailsInvalidToken ==
  [][\A p \in Procs :
       (VerifyFind(p) /\ verifyFind(tokens, req[p].hdr, now) = {}) =>
         req'[p].loc = InvalidToken]_vars

\* C19: a token verify rejects gives the request no principal, no answer and
\* no failure, and passes it to the router; GET /users/:id then answers from
\* the path id and the users table alone, as it does without a header.
C19_RejectedTokenPassesOn ==
  [][\A p \in Procs :
       /\ (VerifyFind(p) /\ verifyFind(tokens, req[p].hdr, now) = {}) =>
            /\ req'[p].pc = "route" /\ req'[p].auth = {}
            /\ req'[p].status = 0 /\ alive'
       /\ \A id \in PathIds :
            GetTry(p, id) =>
              req'[p] = IF \E u \in users : u.id = id /\ ~u.inactive
                        THEN Respond("get", OK, [id |-> id])
                        ELSE Respond("get", NOT_FOUND, Null)]_vars

\* A stale token was turned down and the request is at the router.
C19_Witness ==
  \E p \in Procs : \E r \in tokens :
    /\ req[p].pc = "route" /\ req[p].hdr = r.token
    /\ Age(r) > ONE_WEEK_AGO_IN_MILLIS
    /\ req[p].auth = {} /\ req[p].loc = TypeError /\ alive

\* C20: register ends with the activation email: when sending fails the
\* answer is 502 and the users table has no row of the registration; when it
\* succeeds exactly one row, the new inactive user, is added; until then the
\* row is not in the table.
C20_RegisterAtomic ==
  [][\A p \in Procs :
       /\ req[p].pc = "register_email" =>
            \A u \in users : u.email # req[p].arg.email /\ u.id # req[p].loc.id
       /\ RegisterEmail(p) =>
            /\ req'[p].pc = "done" /\ req'[p].status \in {OK, BAD_GATEWAY}
            /\ req'[p].status = BAD_GATEWAY =>
                 /\ users' = users
                 /\ \A u \in users' : u.email # req[p].arg.email /\ u.id # req[p].loc.id
            /\ req'[p].status = OK =>
                 /\ users' = users \cup {req[p].loc}
                 /\ Cardinality(users') = Cardinality(users) + 1
                 /\ req[p].loc.email = req[p].arg.email /\ req[p].loc.inactive]_vars

\* The only registration so far failed on the email: an id was used, no row.
C20_Witness ==
  \E p \in Procs :
    /\ Answered(p, "register", BAD_GATEWAY)
    /\ users = {} /\ nextUserId = 2

\* C21: every row register creates, and every row that enters the users table,
\* is inactive and carries the activation token drawn for it, which is not
\* null, also when the body of the request carries inactive: false.
C21_RegisteredInactive ==
  [][/\ \A p \in Procs :
          (RegisterCreate(p) /\ req'[p].pc = "register_email") =>
            /\ req'[p].loc.inactive
            /\ req'[p].loc.activationToken # Null
            /\ req'[p].loc.activationToken = randomString("a", req'[p].loc.id)
     /\ \A u \in users' :
          (\A v \in users : v.id # u.id) =>
            /\ u.inactive
            /\ u.activationToken # Null
            /\ u.activationToken = randomString("a", u.id)]_vars

\* A registration whose body said inactive: false was answered 200 and its
\* user is stored inactive with a token.
C21_Witness ==
  \E p \in Procs : \E u \in users :
    /\ Answered(p, "register", OK)
    /\ req[p].out.inactive = {FALSE}
    /\ u.email = req[p].out.email
    /\ u.inactive /\ u.activationToken \in ActivationValues

\* C22: activate with the pending activation token of a user finds that user,
\* and its save makes exactly that user active with no activation token and
\* leaves every other row of the users table as it is; the answer is 200.
C22_ActivateMatching ==
  [][\A p \in Procs :
       /\ \A token \in ActivationValues :
            (ActivateTry(p, token) /\ \E u \in users : u.activationToken = token) =>
              /\ req'[p].pc = "activate_save"
              /\ req'[p].loc \in users
              /\ req'[p].loc.activationToken = token
       /\ ActivateSave(p) =>
            /\ \A u \in users' :
                 u.id = req[p].loc.id => ~u.inactive /\ u.activationToken = Null
            /\ \A u \in users : u.id # req[p].loc.id => u \in users'
            /\ Cardinality(users') = Cardinality(users)
            /\ req'[p].pc = "done" /\ req'[p].status = OK]_vars

\* Two users registered; one was activated just now, the other still waits.
C22_Witness ==
  \E p \in Procs : \E u, v \in users :
    /\ Answered(p, "activate", OK)
    /\ ~u.inactive /\ u.activationToken = Null
    /\ v.inactive /\ v.activationToken \in ActivationValues

\* C23: activate with a token that is the pending activation token of no
\* user is answered 400, the status of InvalidTokenException, and changes no
\* row: every inactive user is still inactive with the token it had.
C23_ActivateUnknown ==
  [][\A p \in Procs : \A token \in ActivationValues \cup {Bogus} :
       (ActivateTry(p, token) /\ \A u \in users : u.activationToken # token) =>
         /\ req'[p].pc = "done" /\ req'[p].status = BAD_REQUEST
         /\ users' = users
         /\ \A u \in users :
              u.inactive =>
                \E v \in users' :
                  v.id = u.id /\ v.inactive /\ v.activationToken = u.activationToken]_vars

\* A 400 for a guessed token while a user waits for its activation: it
\* still waits.
C23_Witness ==
  \E p \in Procs : \E u \in users :
    /\ Answered(p, "activate", BAD_REQUEST) /\ req[p].out.token = Bogus
    /\ u.inactive /\ u.activationToken \in ActivationValues

\* C24: activation happens once: an active user stays active and without
\* activation token in every step of every operation; activate saves only a
\* row that was inactive; and presenting the activation token of a user that
\* is active is answered 400 and changes nothing.
C24_ActivatedOnce ==
  [][/\ \A u \in users : \A v \in users' :
          (~u.inactive /\ v.id = u.id) => ~v.inactive /\ v.activationToken = Null
     /\ \A p \in Procs :
          /\ ActivateSave(p) =>
               \E u \in users : u.id = req[p].loc.id /\ u.inactive
          /\ \A u \in users :
               (~u.inactive /\ ActivateTry(p, randomString("a", u.id))) =>
                 /\ req'[p].pc = "done" /\ req'[p].status = BAD_REQUEST
                 /\ users' = users]_vars

\* The token of the only user was presented again after the user was
\* activated, had a new name and used a password reset: 400, still active.
C24_Witness ==
  \E p \in Procs : \E u \in users :
    /\ Answered(p, "activate", BAD_REQUEST)
    /\ req[p].out.token = randomString("a", u.id)
    /\ ~u.inactive /\ u.activationToken = Null
    /\ u.username = "user1-updated"
    /\ users = {u} /\ nextReset > 1 /\ u.passwordResetToken = Null

\* C25: no two rows of the users table have the same email, whether the
\* users are active or not, also when two registrations with one email are
\* in flight together and both passed the validation.
C25_EmailUnique ==
  \A u, v \in users : u.email = v.email => u = v

\* Two registrations with one email both passed the validation and created
\* their row; one has committed and been activated, the other is still in
\* its transaction.
C25_Witness ==
  \E p, q \in Procs : \E u \in users :
    /\ p # q
    /\ req[q].pc = "register_email" /\ req[q].loc.email = u.email
    /\ req[q].loc.id < u.id /\ ~u.inactive

\* a user holds a reset token when the token is set on its row
Holds(u, token) == u.passwordResetToken # Null /\ u.passwordResetToken = token

\* C26: PUT /user/password with a reset token that no user holds is answered
\* 403, whatever the new password, and leaves users and tokens as they are.
C26_UnknownResetTokenForbidden ==
  [][\A p \in Procs : \A token \in BodyResetTokens :
       \A password \in Passwords \cup {Weak} :
         (PasswordTry(p, token, password) /\ \A u \in users : ~Holds(u, token)) =>
           /\ req'[p].pc = "done" /\ req'[p].status = FORBIDDEN
           /\ users' = users /\ tokens' = tokens]_vars

\* C27: PUT /user/password with a reset token a user holds and a new
\* password that fails the validation is answered 400 and changes nothing:
\* every password hash stays, the token is still on its user and still found,
\* and no session token is deleted.
C27_InvalidPasswordRejected ==
  [][\A p \in Procs : \A token \in ResetValues :
       (PasswordTry(p, token, Weak) /\ \E u \in users : Holds(u, token)) =>
         /\ req'[p].pc = "done" /\ req'[p].status = BAD_REQUEST
         /\ users' = users /\ tokens' = tokens
         /\ \A u \in users' : ~Compare(Weak, u.password)
         /\ findByPasswordResetToken(token)' # {}]_vars

\* A 400 for the reset token of a user that has a session token; the user
\* still holds the token.
C27_Witness ==
  \E p \in Procs : \E u \in users :
    /\ Answered(p, "password", BAD_REQUEST)
    /\ u.passwordResetToken \in ResetValues
    /\ req[p].out.token = u.passwordResetToken
    /\ u.password = Hash("test1234")
    /\ OwnedBy(tokens, u.id) # {}

\* C28: a reset token is used once: updatePassword writes a password for a
\* reset token value only while the user still holds that token, so one value
\* changes a password at most once, also when two updates with the same token
\* are in flight together; a call with a token no user holds any more is
\* answered 403.
C28_ResetTokenSingleUse ==
  [][\A p \in Procs :
       /\ (PasswordSave(p) /\ req[p].arg.passwordResetToken \in ResetValues) =>
            \E u \in users :
              u.id = req[p].loc.id /\ Holds(u, req[p].arg.passwordResetToken)
       /\ \A token \in ResetValues :
            (PasswordTry(p, token, "P4ssword") /\ \A u \in users : ~Holds(u, token)) =>
              req'[p].pc = "done" /\ req'[p].status = FORBIDDEN]_vars

\* C29: a password reset request for the email of a user puts a token on the
\* row of that user that is not null, was never drawn before and is on no
\* other row, and leaves every other row as it is; for an email no user has
\* the answer is 404 and no row changes.
C29_ResetRequest ==
  [][\A p \in Procs :
       /\ \A email \in Emails \cup {UnknownEmail} :
            ResetTry(p, email) =>
              /\ users' = users
              /\ (\A u \in users : u.email # email) =>
                   req'[p].pc = "done" /\ req'[p].status = NOT_FOUND
              /\ (\E u \in users : u.email = email) =>
                   req'[p].pc = "reset_save" /\ req'[p].loc.email = email
       /\ ResetSave(p) =>
            \E u \in users' :
              /\ u.id = req[p].loc.id /\ u.email = req[p].arg.email
              /\ u.passwordResetToken # Null
              /\ u.passwordResetToken \notin ResetValues
              /\ \A v \in users : v.passwordResetToken # u.passwordResetToken
              /\ \A v \in users' : v.passwordResetToken = u.passwordResetToken => v = u
              /\ \A v \in users : v.id # u.id => v \in users']_vars

\* A second request gave user 1 a second token; user 2 has none; the last
\* request, for an email nobody has, was answered 404.
C29_Witness ==
  \E p \in Procs : \E u, v \in users :
    /\ Answered(p, "reset", NOT_FOUND)
    /\ u.passwordResetToken = randomString("r", 2)
    /\ v.id # u.id /\ v.passwordResetToken = Null

\* C30: with an Authorization header, basic authentication fails the request
\* with 403 when no user has the email or the user that has it is inactive;
\* otherwise the request goes on, with the user as principal exactly when
\* the password matches the stored hash, and with no principal otherwise.
C30_BasicGateway ==
  [][\A p \in Procs : \A hdr \in Credentials :
       BasicTry(p, hdr) =>
         LET found == {u \in users : u.email = hdr[1]} IN
         /\ (found = {} \/ \E u \in found : u.inactive) =>
              req'[p].pc = "done" /\ req'[p].status = FORBIDDEN
         /\ (\E u \in found : ~u.inactive) =>
              /\ req'[p].pc = "basic_route"
              /\ req'[p].auth =
                   {u.id : u \in {v \in found : v.password = Hash(hdr[2])}}]_vars

IsInt(value) == Len(value) = 2 /\ value[1] = "int"

\* C31: for every page and pageSize of the query, integer or not numeric,
\* the page in effect is the page given when that is an integer of at least
\* 1 and is 1 otherwise, and the size in effect is the size given when that
\* is an integer from 1 to 10 and is 10 otherwise; so the page is at least 1
\* and the size is from 1 to 10, in the middleware and in the answer.
C31_PaginationClamped ==
  \A p \in Procs :
    /\ req[p].pc = "list" =>
         LET given == req[p].arg
             inEffect == req[p].loc
         IN  /\ inEffect.page =
                  IF IsInt(given.page) /\ given.page[2] >= 1 THEN given.page[2] ELSE 1
             /\ inEffect.size =
                  IF IsInt(given.pageSize) /\ given.pageSize[2] \in 1..10
                  THEN given.pageSize[2] ELSE 10
             /\ inEffect.page >= 1 /\ inEffect.size \in 1..10
    /\ Answered(p, "list", OK) =>
         /\ req[p].out.page >= 1 /\ req[p].out.size \in 1..10
         /\ Cardinality(req[p].out.content) <= req[p].out.size

\* pageSize = 11 was set to 10, page = -1 to 1.
C31_Witness ==
  \E p \in Procs :
    /\ req[p].pc = "list"
    /\ req[p].arg.page = <<"int", 0 - 1>> /\ req[p].arg.pageSize = <<"int", 11>>
    /\ req[p].loc = [page |-> 1, size |-> 10]

\* C32: a token that was issued and has no row (deleted by logout, by the
\* password update's clearTokens, with its user, or by the sweep) has no row
\* after any step; and the save of a verify that read the row before it was
\* deleted writes nothing: the table stays as it is, while the request goes
\* on with the principal it read.
C32_DeletedIsTerminal ==
  [][/\ \A t \in SessionValues : RowsOf(tokens, t) = {} => RowsOf(tokens', t) = {}
     /\ \A p \in Procs :
          (VerifySave(p) /\ RowsOf(tokens, req[p].loc.token) = {}) =>
            /\ tokens' = tokens
            /\ req'[p].pc = "route" /\ req'[p].auth = {req[p].loc.userId}]_vars

\* A verify has read the row and its save is to come; meanwhile the other
\* request logged the token out, removing the row.
C32_Witness ==
  \E p \in Procs, q \in Procs :
    /\ req[p].pc = "verify_save" /\ RowsOf(tokens, req[p].loc.token) = {}
    /\ Answered(q, "logout", OK)
    /\ req[q].out.token = req[p].loc.token /\ req[q].out.deleted = 1
    /\ users # {} /\ swept = {}

\* C33: when two requests verify the same token that is still valid, in any
\* order of their reads and writes, each save leaves exactly one row for the
\* token, the row it found with the time of that verification as lastUsedAt,
\* and every other row as it was; each request goes on with the user of that
\* row as its principal, the same for both; no token ever has two rows.
C33_ConcurrentVerify ==
  [][\A p \in Procs :
       (VerifySave(p) /\ RowsOf(tokens, req[p].loc.token) # {}) =>
         \E r \in tokens :
           /\ r.token = req[p].loc.token
           /\ tokens' = (tokens \ {r}) \cup
                          {[r EXCEPT !.lastUsedAt = req[p].loc.lastUsedAt]}
           /\ \A t \in SessionValues : Cardinality(RowsOf(tokens', t)) <= 1
           /\ req'[p].pc = "route" /\ req'[p].auth = {r.userId}
           /\ \A q \in Procs :
                /\ (req[q].pc = "verify_save" /\ req[q].loc.token = r.token) =>
                     req[q].loc.userId = r.userId
                /\ (req[q].pc = "route" /\ req[q].hdr = r.token /\ req[q].auth # {}) =>
                     req[q].auth = req'[p].auth]_vars

\* One request read the row at time 0 and has not saved yet; the other read
\* it six days later and saved: the row carries the time of the second.
C33_Witness ==
  \E p \in Procs, q \in Procs : \E r \in tokens :
    /\ req[q].pc = "verify_save" /\ req[q].loc.token = r.token
    /\ req[q].loc.lastUsedAt = 0
    /\ req[p].pc = "route" /\ req[p].hdr = r.token /\ req[p].auth = {r.userId}
    /\ r.lastUsedAt = SIX_DAYS /\ now = SIX_DAYS
    /\ Cardinality(tokens) = 2

\* C34: once every updatePassword for a user has completed (none is between
\* its save and its clearTokens), a login stores a session token for that
\* user only if the password hash it compared the credentials with is the
\* user's current one; so every token of the user that verify accepts comes
\* from a login checked against the new password.
C34_PasswordChangeForcesLogin ==
  [][\A p \in Procs :
       (AuthCreate(p) /\ ForeignKeyHolds(req[p].loc.id)) =>
         \A u \in users :
           (/\ u.id = req[p].loc.id
            /\ \A q \in Procs :
                 req[q].pc = "password_clear" => req[q].loc.id # u.id) =>
             /\ u.password = req[p].loc.password
             /\ Compare(req[p].arg.password, u.password)]_vars

\* C35: after every step, also of a login and a deletion of the same account
\* that interleave, the userId of every stored session token is the id of a
\* stored user; and the principal verify returns to the gateway is a stored
\* user, never one that has been deleted.
C35_PrincipalExists ==
  [][/\ \A r \in tokens' : r.userId \in UserIds'
     /\ \A p \in Procs : VerifySave(p) => req'[p].auth \subseteq UserIds']_vars

\* C36: after every step a user that register created is inactive exactly
\* when it holds an activation token; the one step that changes either field
\* of a user is the save of its activation, which sets the user active and
\* clears the token together.
C36_InactiveIffToken ==
  [][/\ \A u \in users' : u.inactive <=> u.activationToken # Null
     /\ \A u \in users, v \in users' :
          (/\ u.id = v.id
           /\ u.inactive # v.inactive \/ u.activationToken # v.activationToken) =>
            /\ \E p \in Procs : ActivateSave(p) /\ req[p].loc.id = u.id
            /\ ~v.inactive /\ v.activationToken = Null]_vars

\* A password reset was asked for and the password set anew before the
\* activation: the user was still inactive with its token, and is active
\* without it now.
C36_Witness ==
  \E p \in Procs : \E u \in users :
    /\ Answered(p, "activate", OK)
    /\ ~u.inactive /\ u.activationToken = Null
    /\ nextReset > 1 /\ u.passwordResetToken = Null

\* C37: a login stores a token only for a user it read as active, and a user
\* that is active stays active; so after every step every stored session
\* token is that of a stored, active user, and the principal of no request
\* is an inactive user.
C37_TokensOfActiveUsers ==
  [][/\ \A p \in Procs : (AuthCreate(p) /\ tokens' # tokens) => ~req[p].loc.inactive
     /\ \A u \in users, v \in users' : (u.id = v.id /\ ~u.inactive) => ~v.inactive
     /\ \A r \in tokens' : \E u \in users' : u.id = r.userId /\ ~u.inactive
     /\ \A p \in Procs : \A u \in users' : u.id \in req'[p].auth => ~u.inactive]_vars

\* The user was activated and logged in, and a request that carries the
\* token is at its route with the user as its principal.
C37_Witness ==
  \E p \in Procs : \E u \in users : \E r \in tokens :
    /\ req[p].pc = "route" /\ req[p].hdr = r.token /\ req[p].auth = {u.id}
    /\ r.userId = u.id /\ ~u.inactive /\ u.activationToken = Null
    /\ nextToken = 2

\* C38: logout with token T removes the rows of T and keeps every other row;
\* clearTokens of a password update for user U and the deletion of account U
\* remove rows of U only: every row of another user is in the table
\* afterwards with the token, userId and lastUsedAt it had; and none of
\* these steps adds a row.
C38_RevokeFrame ==
  [][\A p \in Procs :
       /\ (LogoutDestroy(p) /\ req[p].hdr # Null) =>
            tokens' = tokens \ RowsOf(tokens, req[p].hdr)
       /\ PasswordSave(p) => tokens' = tokens
       /\ PasswordClear(p) =>
            /\ tokens' \subseteq tokens
            /\ \A r \in tokens : r.userId # req[p].loc.id => r \in tokens'
       /\ \A id \in PathIds :
            DeleteTry(p, id) =>
              /\ tokens' \subseteq tokens
              /\ \A r \in tokens : r.userId # id => r \in tokens']_vars

\* The password update of one user removed that user's token and the token
\* of the other user is still stored.
C38_Witness ==
  \E p \in Procs : \E r \in tokens :
    /\ Answered(p, "password", OK) /\ req[p].out.deleted = 1
    /\ r.userId # req[p].out.id
    /\ verifyFind(tokens, r.token, now) = {r}

\* C39: a token whose lastUsedAt is exactly the TTL before now is not found
\* by verify, which asks for lastUsedAt later than now - TTL, and is kept by
\* a cleanup run at that instant, which removes rows with lastUsedAt earlier
\* than now - TTL; and at every instant no row that a cleanup would remove is
\* a row that verify finds.
C39_BoundaryDisjoint ==
  /\ \A r \in tokens :
       Age(r) = ONE_WEEK_AGO_IN_MILLIS =>
         /\ verifyFind(tokens, r.token, now) = {}
         /\ ~VerifyWhere(r, r.token, now)
         /\ r \in cleanup(tokens, now)
         /\ ~CleanupWhere(r, now)
  /\ \A r \in tokens \ cleanup(tokens, now) : verifyFind(tokens, r.token, now) = {}
  /\ \A r \in tokens : ~(CleanupWhere(r, now) /\ VerifyWhere(r, r.token, now))

\* Two weeks after the start a cleanup has removed the token issued at the
\* start; the token issued a week ago is stored still, and the request that
\* presented it went on without a principal.
C39_Witness ==
  \E p \in Procs : \E r \in tokens :
    /\ Age(r) = ONE_WEEK_AGO_IN_MILLIS /\ r.issuedAt = ONE_WEEK_AGO_IN_MILLIS
    /\ swept # {} /\ due = 0
    /\ req[p].pc = "route" /\ req[p].hdr = r.token
    /\ req[p].auth = {} /\ req[p].loc = TypeError

\* C40: when the mail of a password reset request cannot be sent, the answer
\* is 502 and no row is written or taken back: the user of the request holds
\* the token drawn for this request, the token is on no other row, and a
\* password update that presents it finds that user.
C40_ResetEmailFailure ==
  [][\A p \in Procs :
       ResetEmail(p) =>
         /\ users' = users /\ tokens' = tokens
         /\ req'[p].pc = "done" /\ req'[p].status \in {OK, BAD_GATEWAY}
         /\ req'[p].status = BAD_GATEWAY =>
              \E u \in users' :
                /\ u.id = req[p].loc.id
                /\ u.passwordResetToken = randomString("r", nextReset - 1)
                /\ findByPasswordResetToken(u.passwordResetToken)' = {u}]_vars

\* The second request of user 1 was answered 502; the user holds the token
\* drawn for it.
C40_Witness ==
  \E p \in Procs : \E u \in users :
    /\ Answered(p, "reset", BAD_GATEWAY)
    /\ u.id = 1 /\ nextReset = 3
    /\ findByPasswordResetToken(randomString("r", 2)) = {u}

=============================================================================
